---- MODULE Spec2Model ----
(***************************************************************************)
(* Model of the upload job of server.js: app.post('/api/upload') opens a   *)
(* zip archive, streams every CSV entry through csv-parser, projects each  *)
(* row onto the canonical header, collects distinct values and a preview,  *)
(* and writes the consolidated CSV through csv-stringify into a file.      *)
(*                                                                         *)
(* Strings of the program are TLA+ strings; archive paths are sequences of *)
(* characters because the entry filter inspects their suffix.  A JS object *)
(* is a function from its keys to its values; a JS Set is the sequence of  *)
(* its members in insertion order.  null is the empty set and a non-null   *)
(* reference x is the singleton {x}.                                       *)
(***************************************************************************)
EXTENDS Integers, Sequences, FiniteSets, TLC

\* ------------------------------------------------------------------ bounds
\* Largest number of files in the archive's directory listing.
MaxFiles == 2
\* Largest number of data events the parsers deliver after Init.
MaxRows == 2

\* ------------------------------------------------------- program constants
PREVIEW_LIMIT == 50
DISTINCT_LIMIT == 1000

DropHeadersWithoutStation ==
  { "Number TO", "Status", "High Value", "Sender ID", "Sender Name",
    "Sender Type", "Sender",
    "Receiver Name",
    "Station Type", "TO Order", "Quantity", "TO Direction",
    "Volumetric Weight", "Weight",
    "Line Hual Trip Number", "Operator", "Create Time", "Complete Time",
    "Driver Scan Time", "Journey Type", "Remark", "Receive Status",
    "TO Remark" }

DROP_HEADERS ==
  { "Number TO", "Status", "High Value", "Sender ID", "Sender Name",
    "Sender Type", "Sender",
    "Receiver Name",
    "Station Type", "Current Station", "TO Order", "Quantity", "TO Direction",
    "Volumetric Weight", "Weight",
    "Line Hual Trip Number", "Operator", "Create Time", "Complete Time",
    "Driver Scan Time", "Journey Type", "Remark", "Receive Status",
    "TO Remark" }

\* ------------------------------------------------------------------ inputs
\* Entries a directory listing is made of: a CSV file whose suffix is in
\* mixed case, a file of another type, and a directory whose name ends in
\* .csv.
FileKinds ==
  { [path |-> <<"a", ".", "C", "s", "v">>, type |-> "File"],
    [path |-> <<"c", ".", "t", "x", "t">>, type |-> "File"],
    [path |-> <<"d", ".", "c", "s", "v">>, type |-> "Directory"] }

\* Header lines of the CSV files: a dropped column between kept ones, the
\* same columns reordered with an unseen one, and two semantic fields of
\* which one is dropped.  Every list keeps at least one column.
HeaderLists ==
  { <<"A", "Status", "B">>,
    <<"B", "A", "D">>,
    <<"Receiver type", "Current Station">> }

\* Data lines: a line shorter than the header, a full line with an empty
\* cell, and a line longer than the header that starts with an empty cell.
RowCells ==
  { <<"x">>,
    <<"y", "", "y">>,
    <<"", "x", "y", "x">> }

\* ----------------------------------------------------------------- helpers
Range(s) == { s[i] : i \in 1..Len(s) }

Min(a, b) == IF a < b THEN a ELSE b

SeqsUpTo(S, n) == UNION { [1..k -> S] : k \in 0..n }

NULL == {}

Ref(x) == {x}

Deref(r) == CHOOSE x \in r : TRUE

\* String.prototype.toLowerCase on the characters the paths are made of.
LowerChar(c) ==
  CASE c = "C" -> "c"
    [] c = "S" -> "s"
    [] c = "V" -> "v"
    [] OTHER -> c

toLowerCase(p) == [i \in 1..Len(p) |-> LowerChar(p[i])]

endsWith(p, suffix) ==
  /\ Len(p) >= Len(suffix)
  /\ SubSeq(p, Len(p) - Len(suffix) + 1, Len(p)) = suffix

\* The predicate of directory.files.filter: a path, a regular file, and a
\* name that ends in .csv whatever its case.
IsCsvEntryNoType(f) ==
  /\ f.path # <<>>
  /\ endsWith(toLowerCase(f.path), <<".", "c", "s", "v">>)

IsCsvEntry(f) ==
  /\ f.path # <<>>
  /\ f.type = "File"
  /\ endsWith(toLowerCase(f.path), <<".", "c", "s", "v">>)

\* csv-parser with the identity mapHeaders: the row object of a data line
\* has the header names as keys, as far as the line has cells.
RawRow(headers, cells) ==
  LET n == Min(Len(headers), Len(cells))
  IN  [h \in { headers[j] : j \in 1..n } |->
         cells[CHOOSE j \in 1..n : headers[j] = h /\
                 \A k \in (j + 1)..n : headers[k] # h]]

\* headers.filter(h => !DROP_HEADERS.has(h))
FilterDrop(headers) == SelectSeq(headers, LAMBDA h : h \notin DROP_HEADERS)

\* The headers handler's update of canonicalHeaders: computed when it is
\* still null, untouched afterwards.
CanonicalRecomputed(canonical, headers) == Ref(FilterDrop(headers))

CanonicalOnHeaders(canonical, headers) ==
  IF canonical = NULL THEN Ref(FilterDrop(headers)) ELSE canonical

\* Object.fromEntries(canonicalHeaders.map(h => [h, h]))
HeaderRecord(ch) == [h \in Range(ch) |-> h]

\* The data handler's outRow: one key per canonical header.
OutRowSparse(row, ch) == [h \in Range(ch) \cap DOMAIN row |-> row[h]]

OutRow(row, ch) ==
  [h \in Range(ch) |-> IF h \in DOMAIN row THEN row[h] ELSE ""]

RECURSIVE pickFirstPresent(_, _)
pickFirstPresent(rowObj, possibleNames) ==
  IF possibleNames = <<>> THEN ""
  ELSE LET k == Head(possibleNames)
       IN  IF k \in DOMAIN rowObj
           THEN rowObj[k]
           ELSE pickFirstPresent(rowObj, Tail(possibleNames))

RECURSIVE pick(_, _)
pick(rowObj, possibleNames) ==
  IF possibleNames = <<>> THEN ""
  ELSE LET k == Head(possibleNames)
       IN  IF k \in DOMAIN rowObj /\ rowObj[k] # ""
           THEN rowObj[k]
           ELSE pick(rowObj, Tail(possibleNames))

\* outRow['Current Station'] || pick(row, [...])
currentStationVal(row, outRow) ==
  LET projected == IF "Current Station" \in DOMAIN outRow
                   THEN outRow["Current Station"] ELSE ""
  IN  IF projected # "" THEN projected
      ELSE pick(row, <<"Current Station", "current station",
                       "current_station">>)

receiverTypeVal(row) ==
  pick(row, <<"Receiver type", "Receiver Type", "receiver type",
              "receiver_type", "Receiver type">>)

journeyTypeVal(row) ==
  pick(row, <<"Journey Type", "Journey type", "journey type">>)

receiveStatusVal(row) ==
  pick(row, <<"Receive Status", "Receive status", "receive status">>)

\* Set.prototype.add, guarded by the handler's if (val).
SetAdd(s, v) == IF v \in Range(s) THEN s ELSE Append(s, v)

AddIfTruthy(s, v) == IF v # "" THEN SetAdd(s, v) ELSE s

EmptyDistinct ==
  [currentStation |-> <<>>, receiverType |-> <<>>,
   journeyType |-> <<>>, receiveStatus |-> <<>>]

DistinctOnData(d, row, outRow) ==
  [currentStation |-> AddIfTruthy(d.currentStation,
                                  currentStationVal(row, outRow)),
   receiverType   |-> AddIfTruthy(d.receiverType, receiverTypeVal(row)),
   journeyType    |-> AddIfTruthy(d.journeyType, journeyTypeVal(row)),
   receiveStatus  |-> AddIfTruthy(d.receiveStatus, receiveStatusVal(row))]

\* if (preview.length < PREVIEW_LIMIT) preview.push(outRow)
PreviewPushInclusive(p, outRow) ==
  IF Len(p) <= PREVIEW_LIMIT THEN Append(p, outRow) ELSE p

PreviewPush(p, outRow) ==
  IF Len(p) < PREVIEW_LIMIT THEN Append(p, outRow) ELSE p

\* Array.from(s).filter(x => x !== undefined && x !== null && x !== '')
\*   .slice(0, limit)
toArrayLimitOffByOne(s, limit) ==
  LET kept == SelectSeq(s, LAMBDA x : x # "")
  IN  SubSeq(kept, 1, Min(limit + 1, Len(kept)))

toArrayLimit(s, limit) ==
  LET kept == SelectSeq(s, LAMBDA x : x # "")
  IN  SubSeq(kept, 1, Min(limit, Len(kept)))

\* csv-stringify created with { header: true } and no columns option: the
\* first record written fixes the columns to its keys and makes the
\* stringifier emit the column names as a header line of its own; every
\* record, the first included, is emitted as the line of its values.
NewStringifier == [columns |-> <<>>, records |-> 0, ended |-> FALSE]

RecordLine(columns, rec) ==
  [j \in 1..Len(columns) |->
     IF columns[j] \in DOMAIN rec THEN rec[columns[j]] ELSE ""]

StringifierLines(str, rec, keys) ==
  IF str.records = 0
  THEN <<keys, RecordLine(keys, rec)>>
  ELSE <<RecordLine(str.columns, rec)>>

StringifierWrite(str, rec, keys) ==
  [columns |-> IF str.records = 0 THEN keys ELSE str.columns,
   records |-> str.records + 1,
   ended   |-> str.ended]

\* The job's accumulators as one value, so that the two parser handlers are
\* functions from the accumulators before to the accumulators after.
NewJob ==
  [canonicalHeaders |-> NULL, wroteHeader |-> FALSE,
   distinct |-> EmptyDistinct, preview |-> <<>>,
   stringifier |-> NewStringifier, fed |-> <<>>, pending |-> <<>>]

\* parser.on('headers', headers => ...)
OnHeaders(j, headers) ==
  IF j.canonicalHeaders = NULL
  THEN LET canonical == CanonicalOnHeaders(j.canonicalHeaders, headers)
           ch        == Deref(canonical)
           rec       == HeaderRecord(ch)
       IN  [j EXCEPT
              !.canonicalHeaders = canonical,
              !.stringifier = StringifierWrite(j.stringifier, rec, ch),
              !.pending = j.pending \o StringifierLines(j.stringifier, rec, ch),
              !.fed = Append(j.fed, rec),
              !.wroteHeader = TRUE]
  ELSE [j EXCEPT
          !.canonicalHeaders = CanonicalOnHeaders(j.canonicalHeaders, headers)]

\* parser.on('data', row => ...)
OnDataStopsWhenPreviewFull(j, row) ==
  IF j.canonicalHeaders = NULL \/ Len(j.preview) >= PREVIEW_LIMIT THEN j
  ELSE LET ch     == Deref(j.canonicalHeaders)
           outRow == OutRow(row, ch)
       IN  [j EXCEPT
              !.distinct = DistinctOnData(j.distinct, row, outRow),
              !.preview = PreviewPush(j.preview, outRow),
              !.stringifier = StringifierWrite(j.stringifier, outRow, ch),
              !.pending =
                 j.pending \o StringifierLines(j.stringifier, outRow, ch),
              !.fed = Append(j.fed, outRow)]

OnData(j, row) ==
  IF j.canonicalHeaders = NULL THEN j
  ELSE LET ch     == Deref(j.canonicalHeaders)
           outRow == OutRow(row, ch)
       IN  [j EXCEPT
              !.distinct = DistinctOnData(j.distinct, row, outRow),
              !.preview = PreviewPush(j.preview, outRow),
              !.stringifier = StringifierWrite(j.stringifier, outRow, ch),
              !.pending =
                 j.pending \o StringifierLines(j.stringifier, outRow, ch),
              !.fed = Append(j.fed, outRow)]

\* The entries the for loop has handed to a parser when it reaches entry
\* next: the loop awaits each entry's promise before it opens the next.
EntriesStartedAllAtOnce(next, n) == 1..n

EntriesStarted(next, n) == 1..Min(next, n)

\* outStream emits 'finish' once the stringifier has ended and everything
\* it produced has been written to the file.
FinishWithoutDrain(str, pend) == str.ended

FinishReady(str, pend) == str.ended /\ pend = <<>>

NoResponse ==
  [status |-> 0, error |-> "", preview |-> <<>>, distinct |-> EmptyDistinct,
   consolidatedPath |-> ""]

ErrorResponse(status, error) ==
  [status |-> status, error |-> error, preview |-> <<>>,
   distinct |-> EmptyDistinct, consolidatedPath |-> ""]

JobResult(p, d) ==
  [status |-> 200, error |-> "", preview |-> p,
   distinct |->
     [currentStation |-> toArrayLimit(d.currentStation, DISTINCT_LIMIT),
      receiverType   |-> toArrayLimit(d.receiverType, DISTINCT_LIMIT),
      journeyType    |-> toArrayLimit(d.journeyType, DISTINCT_LIMIT),
      receiveStatus  |-> toArrayLimit(d.receiveStatus, DISTINCT_LIMIT)],
   consolidatedPath |-> "/data/consolidated.csv"]

\* ------------------------------------------------------------------- state
VARIABLES
  pc,                \* position of the async handler
  zipOnDisk,         \* the uploaded archive exists at zipPath
  files,             \* directory.files, NULL before the archive is opened
  csvEntries,        \* the filtered entries
  cur,               \* index of the entry the for loop is at
  parsers,           \* state of each entry's parser
  canonicalHeaders,  \* NULL or the reference to the array
  wroteHeader,
  distinct,
  preview,
  stringifier,       \* csvStringifier
  fed,               \* the records passed to csvStringifier.write, in order
  pending,           \* lines the stringifier produced, not yet in the file
  outFile,           \* lines of the file at consolidatedPath
  outExists,         \* a file exists at consolidatedPath
  outState,          \* outStream: none, open, finished, errored
  response,          \* the response sent, NoResponse before
  events,            \* the parser events delivered so far, in order
  budget,            \* data events still allowed
  aborted,           \* the client has closed the upload's connection
  heap,              \* the bindings each concurrent request's closure holds
  disk,              \* the files below DATA_DIR, by path
  reqs,              \* the concurrent upload requests
  previewPc,         \* position of the preview handler
  query,             \* req.query: file and limit, NULL when absent
  previewLimit,      \* limit of the preview handler
  abs,               \* NULL or the path the preview handler resolved
  opened,            \* the preview handler has opened abs for reading
  out,               \* rows the preview handler has collected
  previewStatus,     \* status of the preview response, 0 before
  readPos            \* data lines the preview parser has delivered

vars ==
  <<pc, zipOnDisk, files, csvEntries, cur, parsers, canonicalHeaders,
    wroteHeader, distinct, preview, stringifier, fed, pending, outFile,
    outExists, outState, response, events, budget, aborted,
    heap, disk, reqs, previewPc, query, previewLimit, abs, opened, out,
    previewStatus, readPos>>

concVars == <<heap, disk, reqs>>

previewVars ==
  <<previewPc, query, previewLimit, abs, opened, out, previewStatus, readPos>>

jobVars ==
  <<canonicalHeaders, wroteHeader, distinct, preview, stringifier, fed,
    pending>>

sinkVars == <<outFile, outExists, outState>>

JobState ==
  [canonicalHeaders |-> canonicalHeaders, wroteHeader |-> wroteHeader,
   distinct |-> distinct, preview |-> preview, stringifier |-> stringifier,
   fed |-> fed, pending |-> pending]

SetJob(j) ==
  /\ canonicalHeaders' = j.canonicalHeaders
  /\ wroteHeader' = j.wroteHeader
  /\ distinct' = j.distinct
  /\ preview' = j.preview
  /\ stringifier' = j.stringifier
  /\ fed' = j.fed
  /\ pending' = j.pending

\* No request has been received.
NewRequest ==
  [phase |-> "idle", guid |-> <<>>, hdr |-> <<>>, got |-> FALSE,
   log |-> <<>>, response |-> NoResponse]

NoPreviewRequest ==
  /\ previewPc = "idle"
  /\ query = [file |-> NULL, limit |-> NULL]
  /\ previewLimit = 0
  /\ abs = NULL
  /\ opened = FALSE
  /\ out = <<>>
  /\ previewStatus = 0
  /\ readPos = 0

NoConcurrentUploads ==
  /\ heap = <<>>
  /\ reqs = [i \in 1..2 |-> NewRequest]

NoOtherRequests ==
  /\ NoConcurrentUploads
  /\ disk = <<>>
  /\ NoPreviewRequest

UploadInit ==
  /\ pc = "request"
  /\ zipOnDisk \in BOOLEAN
  /\ files = NULL
  /\ csvEntries = <<>>
  /\ cur = 0
  /\ parsers = <<>>
  /\ canonicalHeaders = NULL
  /\ wroteHeader = FALSE
  /\ distinct = EmptyDistinct
  /\ preview = <<>>
  /\ stringifier = NewStringifier
  /\ fed = <<>>
  /\ pending = <<>>
  /\ outFile = <<>>
  /\ outExists = FALSE
  /\ outState = "none"
  /\ response = NoResponse
  /\ events = <<>>
  /\ budget = MaxRows
  /\ aborted = FALSE

Init == UploadInit /\ NoOtherRequests

\* The header line the parser of entry i has read.
EntryHeaders(log, i) ==
  LET p == CHOOSE q \in 1..Len(log) :
             log[q].entry = i /\ log[q].kind = "headers"
  IN  log[p].headers

\* ----------------------------------------------------------------- actions
\* if (!req.file) return res.status(400)
NoFileUploaded ==
  /\ pc = "request"
  /\ ~zipOnDisk
  /\ pc' = "responded"
  /\ response' = ErrorResponse(400, "No file uploaded")
  /\ UNCHANGED <<zipOnDisk, files, csvEntries, cur, parsers, jobVars,
                 sinkVars, events, budget>>
  /\ UNCHANGED <<aborted, concVars, previewVars>>

\* unzipper.Open.file rejects: the catch block removes the upload.
OpenArchiveFails ==
  /\ pc = "request"
  /\ zipOnDisk
  /\ pc' = "responded"
  /\ zipOnDisk' = FALSE
  /\ response' = ErrorResponse(500, "open")
  /\ UNCHANGED <<files, csvEntries, cur, parsers, jobVars, sinkVars, events,
                 budget>>
  /\ UNCHANGED <<aborted, concVars, previewVars>>

\* The archive opens; the handler filters the entries and either reports
\* that there is no CSV file or creates the output streams and pipes the
\* first entry into its parser.
OpenArchive(listing) ==
  /\ pc = "request"
  /\ zipOnDisk
  /\ files' = Ref(listing)
  /\ LET entries == SelectSeq(listing, IsCsvEntry)
     IN  /\ csvEntries' = entries
         /\ IF Len(entries) = 0
            THEN /\ zipOnDisk' = FALSE
                 /\ pc' = "responded"
                 /\ response' =
                      ErrorResponse(400, "No CSV files found inside the zip")
                 /\ UNCHANGED <<cur, parsers, sinkVars>>
            ELSE /\ outState' = "open"
                 /\ outExists' = TRUE
                 /\ outFile' = <<>>
                 /\ cur' = 1
                 /\ parsers' =
                      [i \in 1..Len(entries) |->
                         IF i \in EntriesStarted(1, Len(entries))
                         THEN "piped" ELSE "idle"]
                 /\ pc' = "await_entry"
                 /\ UNCHANGED <<zipOnDisk, response>>
  /\ UNCHANGED <<jobVars, events, budget>>
  /\ UNCHANGED <<aborted, concVars, previewVars>>

\* parser.on('headers')
Headers(i, headers) ==
  /\ pc = "await_entry"
  /\ i \in DOMAIN parsers
  /\ parsers[i] = "piped"
  /\ parsers' = [parsers EXCEPT ![i] = "rows"]
  /\ SetJob(OnHeaders(JobState, headers))
  /\ events' = Append(events, [entry |-> i, kind |-> "headers",
                               headers |-> headers, cells |-> <<>>])
  /\ UNCHANGED <<pc, zipOnDisk, files, csvEntries, cur, sinkVars, response,
                 budget>>
  /\ UNCHANGED <<aborted, concVars, previewVars>>

\* parser.on('data')
Data(i, cells) ==
  /\ pc = "await_entry"
  /\ i \in DOMAIN parsers
  /\ parsers[i] = "rows"
  /\ budget > 0
  /\ budget' = budget - 1
  /\ LET hs == EntryHeaders(events, i)
     IN  /\ events' = Append(events, [entry |-> i, kind |-> "row",
                                      headers |-> hs, cells |-> cells])
         /\ SetJob(OnData(JobState, RawRow(hs, cells)))
  /\ UNCHANGED <<pc, zipOnDisk, files, csvEntries, cur, parsers, sinkVars,
                 response>>
  /\ UNCHANGED <<aborted, concVars, previewVars>>

\* parser.on('end') resolves the entry's promise; the loop goes on with the
\* next entry or, after the last one, ends the stringifier and waits for
\* the output stream.
End(i) ==
  /\ pc = "await_entry"
  /\ i \in DOMAIN parsers
  /\ parsers[i] \in {"piped", "rows"}
  /\ events' = Append(events, [entry |-> i, kind |-> "end",
                               headers |-> <<>>, cells |-> <<>>])
  /\ IF i # cur
     THEN /\ parsers' = [parsers EXCEPT ![i] = "ended"]
          /\ UNCHANGED <<pc, cur, stringifier>>
     ELSE IF cur < Len(csvEntries)
     THEN /\ cur' = cur + 1
          /\ parsers' =
               [j \in DOMAIN parsers |->
                  IF j = i THEN "ended"
                  ELSE IF /\ parsers[j] = "idle"
                          /\ j \in EntriesStarted(cur + 1, Len(csvEntries))
                       THEN "piped" ELSE parsers[j]]
          /\ UNCHANGED <<pc, stringifier>>
     ELSE /\ parsers' = [parsers EXCEPT ![i] = "ended"]
          /\ stringifier' = [stringifier EXCEPT !.ended = TRUE]
          /\ pc' = "await_finish"
          /\ UNCHANGED cur
  /\ UNCHANGED <<zipOnDisk, files, csvEntries, canonicalHeaders, wroteHeader,
                 distinct, preview, fed, pending, sinkVars, response,
                 budget>>
  /\ UNCHANGED <<aborted, concVars, previewVars>>

\* parser.on('error') rejects the entry's promise: the catch block removes
\* the upload and answers 500.
ParseError(i) ==
  /\ pc = "await_entry"
  /\ i \in DOMAIN parsers
  /\ parsers[i] \in {"piped", "rows"}
  /\ parsers' = [parsers EXCEPT ![i] = "errored"]
  /\ events' = Append(events, [entry |-> i, kind |-> "error",
                               headers |-> <<>>, cells |-> <<>>])
  /\ IF i = cur
     THEN /\ pc' = "responded"
          /\ zipOnDisk' = FALSE
          /\ response' = ErrorResponse(500, "parse")
     ELSE UNCHANGED <<pc, zipOnDisk, response>>
  /\ UNCHANGED <<files, csvEntries, cur, jobVars, sinkVars, budget>>
  /\ UNCHANGED <<aborted, concVars, previewVars>>

\* The pipe from the stringifier to outStream moves one line into the file.
Flush ==
  /\ pc # "crashed"
  /\ outState = "open"
  /\ pending # <<>>
  /\ outFile' = Append(outFile, Head(pending))
  /\ pending' = Tail(pending)
  /\ UNCHANGED <<pc, zipOnDisk, files, csvEntries, cur, parsers,
                 canonicalHeaders, wroteHeader, distinct, preview,
                 stringifier, fed, outExists, outState, response, events,
                 budget>>
  /\ UNCHANGED <<aborted, concVars, previewVars>>

\* outStream emits 'finish': the handler removes the upload and answers
\* with the job result.
OutFinish ==
  /\ pc = "await_finish"
  /\ outState = "open"
  /\ FinishReady(stringifier, pending)
  /\ outState' = "finished"
  /\ zipOnDisk' = FALSE
  /\ pc' = "responded"
  /\ response' = JobResult(preview, distinct)
  /\ UNCHANGED <<files, csvEntries, cur, parsers, jobVars, outFile,
                 outExists, events, budget>>
  /\ UNCHANGED <<aborted, concVars, previewVars>>

\* outStream emits 'error' while the handler waits for 'finish': the catch
\* block removes the upload and answers 500.
OutErrorFinalizing ==
  /\ pc = "await_finish"
  /\ outState = "open"
  /\ outState' = "errored"
  /\ zipOnDisk' = FALSE
  /\ pc' = "responded"
  /\ response' = ErrorResponse(500, "write")
  /\ UNCHANGED <<files, csvEntries, cur, parsers, jobVars, outFile,
                 outExists, events, budget>>
  /\ UNCHANGED <<aborted, concVars, previewVars>>

\* The byte stream of an entry emits 'error'.  It is piped into the parser
\* without an 'error' listener and pipe does not forward errors, so the
\* event is an uncaught exception: the process ends, the entry's promise is
\* never settled and no response is sent.
EntryStreamError(i) ==
  /\ pc = "await_entry"
  /\ i \in DOMAIN parsers
  /\ parsers[i] \in {"piped", "rows"}
  /\ pc' = "crashed"
  /\ UNCHANGED <<zipOnDisk, files, csvEntries, cur, parsers, jobVars,
                 sinkVars, response, events, budget, aborted,
                 concVars, previewVars>>

\* outStream emits 'error' while the entries are read: the handler listens
\* for it only from line 177 on, the pipe's own listener re-emits it, and
\* the process ends on the uncaught exception.
OutErrorEarly ==
  /\ pc = "await_entry"
  /\ outState = "open"
  /\ outState' = "errored"
  /\ pc' = "crashed"
  /\ UNCHANGED <<zipOnDisk, files, csvEntries, cur, parsers, jobVars,
                 outFile, outExists, response, events, budget, aborted,
                 concVars, previewVars>>

\* The client closes the connection while the job runs.  The handler has
\* no 'close' or 'aborted' listener: nothing of the job changes.
ClientAbort ==
  /\ pc \in {"await_entry", "await_finish"}
  /\ ~aborted
  /\ aborted' = TRUE
  /\ UNCHANGED <<concVars, previewVars>>
  /\ UNCHANGED <<pc, zipOnDisk, files, csvEntries, cur, parsers, jobVars,
                 sinkVars, response, events, budget>>

Next ==
  \/ NoFileUploaded
  \/ OpenArchiveFails
  \/ \E listing \in SeqsUpTo(FileKinds, MaxFiles) : OpenArchive(listing)
  \/ \E i \in 1..MaxFiles, headers \in HeaderLists : Headers(i, headers)
  \/ \E i \in 1..MaxFiles, cells \in RowCells : Data(i, cells)
  \/ \E i \in 1..MaxFiles : End(i)
  \/ \E i \in 1..MaxFiles : ParseError(i)
  \/ Flush
  \/ OutFinish
  \/ OutErrorFinalizing
  \/ \E i \in 1..MaxFiles : EntryStreamError(i)
  \/ OutErrorEarly

Spec == Init /\ [][Next]_vars

\* The job with a client that may go away.  The abort changes nothing the
\* handler reads, so it is left out of Next and every behaviour of Spec is
\* a behaviour of SpecAbort in which the connection stays open.
NextAbort == Next \/ ClientAbort

SpecAbort == Init /\ [][NextAbort]_vars

\* The job under fair scheduling: the event loop runs a callback whenever
\* one is ready, so a step of the job is taken as long as one is possible.
SpecLive == Init /\ [][Next]_vars /\ WF_vars(Next)

\* ------------------------------------------------------- long-running jobs
\* The caps of the preview and of the read-out are 50 and 1000, so the
\* states where they matter come after that many rows.  LongJob(k) is the
\* value of the accumulators after the first of two entries has delivered
\* its header line and k rows with k different values, obtained by applying
\* the handlers themselves; InitLong starts the job there, with everything
\* the stringifier produced already in the file.
LongListing ==
  << [path |-> <<"a", ".", "C", "s", "v">>, type |-> "File"],
     [path |-> <<"a", ".", "C", "s", "v">>, type |-> "File"] >>

LongHeaders == <<"Receiver type", "Current Station">>

LongCells(i) == <<ToString(i), "x">>

\* The accumulators after the rows lo..hi have been delivered to j.  The
\* range is halved so that the evaluation nests only logarithmically deep.
RECURSIVE LongRows(_, _, _)
LongRows(j, lo, hi) ==
  IF lo > hi THEN j
  ELSE IF lo = hi THEN OnData(j, RawRow(LongHeaders, LongCells(lo)))
  ELSE LET mid  == (lo + hi) \div 2
           left == LongRows(j, lo, mid)
       IN  \* the header record is always there: the test only makes the
           \* first half a value before the second half starts
           IF left.stringifier.records > 0
           THEN LongRows(left, mid + 1, hi)
           ELSE left

LongJob(k) == LongRows(OnHeaders(NewJob, LongHeaders), 1, k)

LongEvents(k) ==
  [q \in 1..(k + 1) |->
     IF q = 1
     THEN [entry |-> 1, kind |-> "headers", headers |-> LongHeaders,
           cells |-> <<>>]
     ELSE [entry |-> 1, kind |-> "row", headers |-> LongHeaders,
           cells |-> LongCells(q - 1)]]

\* Numbers of rows already delivered: one less and one more than each of
\* the two caps.
LongPrefixes ==
  { PREVIEW_LIMIT - 1, PREVIEW_LIMIT + 1,
    DISTINCT_LIMIT - 1, DISTINCT_LIMIT + 1 }

InitLongAt(k) ==
    LET j == LongJob(k)
    IN  /\ pc = "await_entry"
        /\ zipOnDisk = TRUE
        /\ files = Ref(LongListing)
        /\ csvEntries = SelectSeq(LongListing, IsCsvEntry)
        /\ cur = 1
        /\ parsers = <<"rows", "idle">>
        /\ canonicalHeaders = j.canonicalHeaders
        /\ wroteHeader = j.wroteHeader
        /\ distinct = j.distinct
        /\ preview = j.preview
        /\ stringifier = j.stringifier
        /\ fed = j.fed
        /\ pending = <<>>
        /\ outFile = j.pending
        /\ outExists = TRUE
        /\ outState = "open"
        /\ response = NoResponse
        /\ events = LongEvents(k)
        /\ budget = MaxRows
        /\ aborted = FALSE
        /\ NoOtherRequests

InitLong == \E k \in LongPrefixes : InitLongAt(k)

SpecLong == (Init \/ InitLong) /\ [][Next]_vars

\* Jobs around the preview cap only.
InitPreviewFull ==
  \E k \in {PREVIEW_LIMIT - 1, PREVIEW_LIMIT + 1} : InitLongAt(k)

SpecPreviewFull == (Init \/ InitPreviewFull) /\ [][Next]_vars

\* ------------------------------------------------------ alias header lines
\* Header lines with several spellings of a semantic field: the spelling
\* that comes first in the alias list standing later in the file, a dropped
\* spelling next to a kept one, and the dropped 'Current Station' next to
\* another spelling of it.
AliasHeaderLists ==
  { <<"current station", "Receiver Type", "Receiver type">>,
    <<"Journey type", "Journey Type", "Receive status">>,
    <<"current_station", "Current Station", "receive status">> }

\* The job after the first of two entries has announced such a header line.
InitAlias ==
  \E hl \in AliasHeaderLists :
    LET j == OnHeaders(NewJob, hl)
    IN  /\ pc = "await_entry"
        /\ zipOnDisk = TRUE
        /\ files = Ref(LongListing)
        /\ csvEntries = SelectSeq(LongListing, IsCsvEntry)
        /\ cur = 1
        /\ parsers = <<"rows", "idle">>
        /\ canonicalHeaders = j.canonicalHeaders
        /\ wroteHeader = j.wroteHeader
        /\ distinct = j.distinct
        /\ preview = j.preview
        /\ stringifier = j.stringifier
        /\ fed = j.fed
        /\ pending = j.pending
        /\ outFile = <<>>
        /\ outExists = TRUE
        /\ outState = "open"
        /\ response = NoResponse
        /\ events = << [entry |-> 1, kind |-> "headers", headers |-> hl,
                        cells |-> <<>>] >>
        /\ budget = MaxRows
        /\ aborted = FALSE
        /\ NoOtherRequests

SpecAlias == (Init \/ InitAlias) /\ [][Next]_vars

\* ------------------------------------------------------ concurrent uploads
\* path.resolve('./data'), with the working directory at /app; a path is
\* the sequence of its segments, a segment the sequence of its characters.
DATA_DIR == << <<"a", "p", "p">>, <<"d", "a", "t", "a">> >>

\* uuidv4() values; a value is handed out once.
Guids == { <<"1">>, <<"2">> }

consolidatedFilename(guid) ==
  <<"c", "o", "n", "s", "o", "l", "i", "d", "a", "t", "e", "d", "-">>
    \o guid \o <<".", "c", "s", "v">>

consolidatedPath(guid) == Append(DATA_DIR, consolidatedFilename(guid))

\* The bindings declared in the handler's body are created anew by each
\* call of the handler; the parser callbacks of a request close over them.
JobScopeModuleLevel(i) == 1

JobScope(i) == i

UsedGuids == { reqs[i].guid : i \in { k \in 1..2 : reqs[k].phase # "idle" } }

DataCount(log) == Len(SelectSeq(log, LAMBDA e : e.kind = "data"))

\* The request's handler runs up to the first await inside the loop: it
\* creates its bindings and the output stream, and pipes the one CSV entry
\* of its archive into a parser.
StartUpload(i, g) ==
  /\ reqs[i].phase = "idle"
  /\ g \notin UsedGuids
  /\ reqs' = [reqs EXCEPT ![i].phase = "parsing", ![i].guid = g]
  /\ heap' = (JobScope(i) :> NewJob) @@ heap
  /\ disk' = (consolidatedPath(g) :> <<>>) @@ disk
  /\ UNCHANGED <<pc, zipOnDisk, files, csvEntries, cur, parsers, jobVars,
                 sinkVars, response, events, budget, aborted, previewVars>>

UploadHeaders(i, headers) ==
  /\ reqs[i].phase = "parsing"
  /\ ~reqs[i].got
  /\ heap' = [heap EXCEPT
                ![JobScope(i)] = OnHeaders(heap[JobScope(i)], headers)]
  /\ reqs' = [reqs EXCEPT
                ![i].got = TRUE,
                ![i].hdr = headers,
                ![i].log = Append(@, [kind |-> "headers", headers |-> headers,
                                      cells |-> <<>>])]
  /\ UNCHANGED <<pc, zipOnDisk, files, csvEntries, cur, parsers, jobVars,
                 sinkVars, response, events, budget, aborted, disk,
                 previewVars>>

UploadData(i, cells) ==
  /\ reqs[i].phase = "parsing"
  /\ reqs[i].got
  /\ DataCount(reqs[1].log) + DataCount(reqs[2].log) < MaxRows
  /\ heap' = [heap EXCEPT
                ![JobScope(i)] =
                   OnData(heap[JobScope(i)], RawRow(reqs[i].hdr, cells))]
  /\ reqs' = [reqs EXCEPT
                ![i].log = Append(@, [kind |-> "data",
                                      headers |-> reqs[i].hdr,
                                      cells |-> cells])]
  /\ UNCHANGED <<pc, zipOnDisk, files, csvEntries, cur, parsers, jobVars,
                 sinkVars, response, events, budget, aborted, disk,
                 previewVars>>

\* The parser's 'end': the loop is over and csvStringifier.end() is called.
UploadEnd(i) ==
  /\ reqs[i].phase = "parsing"
  /\ reqs' = [reqs EXCEPT ![i].phase = "finishing"]
  /\ heap' = [heap EXCEPT ![JobScope(i)].stringifier.ended = TRUE]
  /\ UNCHANGED <<pc, zipOnDisk, files, csvEntries, cur, parsers, jobVars,
                 sinkVars, response, events, budget, aborted, disk,
                 previewVars>>

\* The request's outStream writes what its stringifier has produced.
UploadFlush(i) ==
  /\ reqs[i].phase \in {"parsing", "finishing"}
  /\ heap[JobScope(i)].pending # <<>>
  /\ disk' = [disk EXCEPT
                ![consolidatedPath(reqs[i].guid)] =
                   @ \o heap[JobScope(i)].pending]
  /\ heap' = [heap EXCEPT ![JobScope(i)].pending = <<>>]
  /\ UNCHANGED <<pc, zipOnDisk, files, csvEntries, cur, parsers, jobVars,
                 sinkVars, response, events, budget, aborted, reqs,
                 previewVars>>

\* 'finish' of the request's outStream, then res.json.
UploadFinish(i) ==
  /\ reqs[i].phase = "finishing"
  /\ FinishReady(heap[JobScope(i)].stringifier, heap[JobScope(i)].pending)
  /\ reqs' = [reqs EXCEPT
                ![i].phase = "done",
                ![i].response =
                   [JobResult(heap[JobScope(i)].preview,
                              heap[JobScope(i)].distinct)
                      EXCEPT !.consolidatedPath =
                               << <<"d", "a", "t", "a">>,
                                  consolidatedFilename(reqs[i].guid) >>]]
  /\ UNCHANGED <<pc, zipOnDisk, files, csvEntries, cur, parsers, jobVars,
                 sinkVars, response, events, budget, aborted, heap, disk,
                 previewVars>>

NextConcurrent ==
  \E i \in 1..2 :
    \/ \E g \in Guids : StartUpload(i, g)
    \/ \E headers \in HeaderLists : UploadHeaders(i, headers)
    \/ \E cells \in RowCells : UploadData(i, cells)
    \/ UploadEnd(i)
    \/ UploadFlush(i)
    \/ UploadFinish(i)

SpecConcurrent == Init /\ [][NextConcurrent]_vars

\* ---------------------------------------------------------- preview request
\* Characters a file parameter is made of.
PathChars == {"a", ".", "/"}

MaxName == 3

FileParams == {NULL} \cup { Ref(n) : n \in SeqsUpTo(PathChars, MaxName) }

\* req.query.limit: absent, or a string of decimal digits.
LimitParams == {NULL} \cup { Ref(d) : d \in { <<0>>, <<1>>, <<2>>, <<6, 0>> } }

RECURSIVE Number(_)
Number(digits) ==
  IF digits = <<>> THEN 0
  ELSE 10 * Number(SubSeq(digits, 1, Len(digits) - 1)) + digits[Len(digits)]

\* Number(req.query.limit || 50)
LimitOf(l) == IF l = NULL THEN 50 ELSE Number(Deref(l))

RECURSIVE StripTrailingSeparators(_)
StripTrailingSeparators(p) ==
  IF p # <<>> /\ p[Len(p)] = "/"
  THEN StripTrailingSeparators(SubSeq(p, 1, Len(p) - 1))
  ELSE p

\* path.basename: what follows the last separator, trailing separators
\* apart.
basename(p) ==
  LET q     == StripTrailingSeparators(p)
      seps  == { k \in 1..Len(q) : q[k] = "/" }
      start == IF seps = {} THEN 0
               ELSE CHOOSE k \in seps : \A m \in seps : m <= k
  IN  SubSeq(q, start + 1, Len(q))

RECURSIVE Split(_)
Split(p) ==
  IF p = <<>> THEN << <<>> >>
  ELSE LET rest == Split(Tail(p))
       IN  IF Head(p) = "/" THEN << <<>> >> \o rest
           ELSE << <<Head(p)>> \o Head(rest) >> \o Tail(rest)

RECURSIVE Resolve(_, _)
Resolve(base, segs) ==
  IF segs = <<>> THEN base
  ELSE LET seg == Head(segs)
           nb  == IF seg = <<>> \/ seg = <<".">> THEN base
                  ELSE IF seg = <<".", ".">>
                       THEN SubSeq(base, 1, Len(base) - 1)
                       ELSE Append(base, seg)
       IN  Resolve(nb, Tail(segs))

\* path.join(dir, name): the segments of name followed from dir, '.' and
\* empty segments skipped, '..' going one directory up.
join(dir, name) == Resolve(dir, Split(name))

IsDirectory(p) == Len(p) <= Len(DATA_DIR) /\ p = SubSeq(DATA_DIR, 1, Len(p))

existsSync(p) == p \in DOMAIN disk \/ IsDirectory(p)

\* csv-parser over a file: the first line names the columns, every other
\* line is a row.
FileRows(lines) ==
  IF lines = <<>> THEN <<>>
  ELSE [r \in 1..(Len(lines) - 1) |-> RawRow(lines[1], lines[r + 1])]

\* Files in DATA_DIR when a preview is asked for: a short one, the output
\* of a job of more than 50 rows, and an empty one.
PreviewDisk ==
  (Append(DATA_DIR, <<"a">>) :>
     << <<"A", "B">>, <<"x", "y">>, <<"y">>, <<"", "x">> >>)
  @@ (Append(DATA_DIR, <<"a", "a">>) :> LongJob(PREVIEW_LIMIT + 1).pending)
  @@ (Append(DATA_DIR, <<".", "a">>) :> <<>>)

InitPreview ==
  /\ UploadInit
  /\ NoConcurrentUploads
  /\ disk = PreviewDisk
  /\ NoPreviewRequest

\* app.get('/api/preview') up to the return of the handler.
PreviewRequest(f, l) ==
  /\ previewPc = "idle"
  /\ query' = [file |-> f, limit |-> l]
  /\ previewLimit' = LimitOf(l)
  /\ IF f = NULL \/ f = Ref(<<>>)
     THEN /\ previewStatus' = 400
          /\ previewPc' = "responded"
          /\ UNCHANGED <<abs, opened>>
     ELSE LET safe     == basename(Deref(f))
              resolved == join(DATA_DIR, safe)
          IN  /\ abs' = Ref(resolved)
              /\ IF ~existsSync(resolved)
                 THEN /\ previewStatus' = 404
                      /\ previewPc' = "responded"
                      /\ UNCHANGED opened
                 ELSE /\ opened' = TRUE
                      /\ previewPc' = "reading"
                      /\ UNCHANGED previewStatus
  /\ UNCHANGED <<pc, zipOnDisk, files, csvEntries, cur, parsers, jobVars,
                 sinkVars, response, events, budget, aborted, concVars, out,
                 readPos>>

\* if (out.length < limit) out.push(row)
PushWhileBelow(o, row, lim) == IF Len(o) < lim THEN Append(o, row) ELSE o

\* .on('data', row => ...)
PreviewData ==
  /\ previewPc = "reading"
  /\ Deref(abs) \in DOMAIN disk
  /\ readPos < Len(FileRows(disk[Deref(abs)]))
  /\ out' = PushWhileBelow(out, FileRows(disk[Deref(abs)])[readPos + 1],
                           previewLimit)
  /\ readPos' = readPos + 1
  /\ UNCHANGED <<pc, zipOnDisk, files, csvEntries, cur, parsers, jobVars,
                 sinkVars, response, events, budget, aborted, concVars,
                 previewPc, query, previewLimit, abs, opened, previewStatus>>

\* .on('end', () => res.json({ preview: out }))
PreviewEnd ==
  /\ previewPc = "reading"
  /\ Deref(abs) \in DOMAIN disk
  /\ readPos = Len(FileRows(disk[Deref(abs)]))
  /\ previewStatus' = 200
  /\ previewPc' = "responded"
  /\ UNCHANGED <<pc, zipOnDisk, files, csvEntries, cur, parsers, jobVars,
                 sinkVars, response, events, budget, aborted, concVars,
                 query, previewLimit, abs, opened, out, readPos>>

\* Reading a directory fails with EISDIR: the read stream emits 'error',
\* and the handler's only 'error' listener is on the parser the stream is
\* piped into, so the event is unhandled and ends the process.
PreviewReadError ==
  /\ previewPc = "reading"
  /\ IsDirectory(Deref(abs))
  /\ previewPc' = "crashed"
  /\ UNCHANGED <<pc, zipOnDisk, files, csvEntries, cur, parsers, jobVars,
                 sinkVars, response, events, budget, aborted, concVars,
                 query, previewLimit, abs, opened, out, previewStatus,
                 readPos>>

NextPreview ==
  \/ \E f \in FileParams, l \in LimitParams : PreviewRequest(f, l)
  \/ PreviewData
  \/ PreviewEnd
  \/ PreviewReadError

SpecPreview == InitPreview /\ [][NextPreview]_vars

\* ------------------------------------------------------------- properties
\* What the properties say is written from the parser events alone.
RowEvents == SelectSeq(events, LAMBDA e : e.kind = "row")

HeaderEvents == SelectSeq(events, LAMBDA e : e.kind = "headers")

ErrorEvents == SelectSeq(events, LAMBDA e : e.kind = "error")

\* The value a data line has in the column called name, "" when the file
\* has no such column or the line is too short to reach it.
HasCell(e, name) ==
  \E c \in 1..Len(e.headers) : c <= Len(e.cells) /\ e.headers[c] = name

CellOf(e, name) ==
  IF HasCell(e, name)
  THEN e.cells[CHOOSE c \in 1..Len(e.headers) :
                 c <= Len(e.cells) /\ e.headers[c] = name]
  ELSE ""

\* The projection of a data line onto the columns ch, as an object and as a
\* line of the output.
Projected(e, ch) == [h \in Range(ch) |-> CellOf(e, h)]

ProjectedLine(e, ch) == [c \in 1..Len(ch) |-> CellOf(e, ch[c])]

\* ch is hs without the names of the drop-set, in the order of hs.
IsKeptPart(ch, hs) ==
  LET kept == { c \in 1..Len(hs) : hs[c] \notin DROP_HEADERS }
  IN  /\ Len(ch) = Cardinality(kept)
      /\ \A a \in 1..Len(ch) :
           \E c \in kept :
             /\ ch[a] = hs[c]
             /\ Cardinality({ d \in kept : d < c }) = a - 1

\* Everything the stringifier has produced: the file, then what is on its
\* way to the file.
Produced == outFile \o pending

\* The lines of the output that are not the header line.
DataLines(lines, ch) == SelectSeq(lines, LAMBDA l : l # ch)

HeaderLineCount(lines, ch) ==
  Cardinality({ p \in 1..Len(lines) : lines[p] = ch })

Terminal == pc = "responded"

\* C1: with two or more CSV entries of which exactly one raises a parse
\* error, the job is not failed by it: no 500 response is sent, and once
\* the job has answered it has answered 200 with every row of the other
\* entries in the output.
C1_EntryErrorIsolated ==
  (Len(csvEntries) >= 2 /\ Len(ErrorEvents) = 1) =>
    /\ response.status # 500
    /\ Terminal =>
         /\ response.status = 200
         /\ canonicalHeaders # NULL =>
              DataLines(outFile, Deref(canonicalHeaders)) =
                [r \in 1..Len(RowEvents) |->
                   ProjectedLine(RowEvents[r], Deref(canonicalHeaders))]

\* C2: the canonical header is null until the first headers event of the
\* job; from then on, in every state, it is that event's header list
\* without the drop-set names, in the same order, whatever later entries
\* announce; no drop-set name is a column of the stringifier or a key of a
\* record written to it.
C2_CanonicalHeaderFrozen ==
  /\ canonicalHeaders = NULL <=> HeaderEvents = <<>>
  /\ canonicalHeaders # NULL =>
       /\ IsKeptPart(Deref(canonicalHeaders), HeaderEvents[1].headers)
       /\ Range(Deref(canonicalHeaders)) \cap DROP_HEADERS = {}
       /\ stringifier.columns = Deref(canonicalHeaders)
       /\ \A p \in 1..Len(fed) : DOMAIN fed[p] \cap DROP_HEADERS = {}
       /\ \A p \in 1..Len(Produced) :
            Range(Produced[p]) \cap DROP_HEADERS = {}

\* C2 witness: a later entry has announced a different header list after
\* the first one, which had a drop-set column, fixed the canonical header.
C2_Witness ==
  /\ Len(HeaderEvents) >= 2
  /\ HeaderEvents[2].headers # HeaderEvents[1].headers
  /\ Range(HeaderEvents[1].headers) \cap DROP_HEADERS # {}
  /\ Len(RowEvents) >= 1

C4_SingleHeaderRecord ==
  (canonicalHeaders # NULL /\ Produced # <<>>) =>
    /\ Produced[1] = Deref(canonicalHeaders)
    /\ HeaderLineCount(Produced, Deref(canonicalHeaders)) = 1

\* C5: an entry delivers an event only after the entry before it has
\* delivered its end event, and the data lines of the output are the
\* projections of the data events in the order they were delivered, one
\* line each; what is in the file is a prefix of them.
C5_SequentialOrder ==
  /\ \A q \in 1..Len(events) :
       events[q].entry > 1 =>
         \E p \in 1..(q - 1) :
           events[p].entry = events[q].entry - 1 /\ events[p].kind = "end"
  /\ \A p, q \in 1..Len(RowEvents) :
       p < q => RowEvents[p].entry <= RowEvents[q].entry
  /\ canonicalHeaders # NULL =>
       LET ch    == Deref(canonicalHeaders)
           lines == [r \in 1..Len(RowEvents) |->
                       ProjectedLine(RowEvents[r], ch)]
           onDisk == DataLines(outFile, ch)
       IN  /\ DataLines(Produced, ch) = lines
           /\ Len(onDisk) <= Len(lines)
           /\ onDisk = SubSeq(lines, 1, Len(onDisk))

\* C5 witness: a successful job whose output has lines of two entries.
C5_Witness ==
  /\ response.status = 200
  /\ \E p, q \in 1..Len(RowEvents) :
       /\ RowEvents[p].entry = 1
       /\ RowEvents[q].entry = 2
       /\ RowEvents[p].cells # RowEvents[q].cells
  /\ Len(outFile) >= 3

\* C6: a job that has failed after the output stream was created leaves no
\* file at the consolidated output path.
C6_NoOutputAfterFailure ==
  (Terminal /\ response.status = 500 /\ outState # "none") => ~outExists

\* An entry the job has to read: a regular file whose name ends in .csv in
\* any case.
Qualifies(f) ==
  LET n == Len(f.path)
  IN  /\ f.type = "File"
      /\ n >= 4
      /\ f.path[n - 3] = "."
      /\ f.path[n - 2] \in {"c", "C"}
      /\ f.path[n - 1] \in {"s", "S"}
      /\ f.path[n] \in {"v", "V"}

\* C7: when the opened archive has no regular file with a .csv name, the
\* job has failed with the empty-archive error, no file exists or was
\* opened at the output path, and no header, row or writer action has
\* happened.
C7_EmptyArchive ==
  (files # NULL /\ \A c \in 1..Len(Deref(files)) : ~Qualifies(Deref(files)[c]))
    => /\ Terminal
       /\ response.status = 400
       /\ response.error = "No CSV files found inside the zip"
       /\ ~outExists
       /\ outState = "none"
       /\ outFile = <<>>
       /\ events = <<>>
       /\ fed = <<>>
       /\ pending = <<>>
       /\ stringifier = NewStringifier
       /\ canonicalHeaders = NULL
       /\ preview = <<>>
       /\ distinct = EmptyDistinct

\* C7 witness: an archive with entries, none of them a CSV file, one of
\* them a directory with a .csv name, has been answered.
C7_Witness ==
  /\ files # NULL
  /\ Terminal
  /\ response.status = 400
  /\ \E c \in 1..Len(Deref(files)) :
       Deref(files)[c].type = "Directory"

C9_PreviewCap ==
  LET rows == RowEvents
  IN  /\ Len(preview) <= 50
      /\ Len(preview) = Min(50, Len(rows))
      /\ \A r \in 1..Len(preview) :
           /\ DOMAIN preview[r] = Range(Deref(canonicalHeaders))
           /\ \A h \in DOMAIN preview[r] : preview[r][h] = CellOf(rows[r], h)
      /\ response.status = 200 => response.preview = preview

\* C9 witness: a successful job with more than 50 data lines, the last of
\* them from the second entry.
C9_Witness ==
  /\ response.status = 200
  /\ Len(RowEvents) > 50
  /\ RowEvents[Len(RowEvents)].entry = 2
  /\ Len(response.preview) = 50

DistinctFields ==
  {"currentStation", "receiverType", "journeyType", "receiveStatus"}

\* C10: no distinct set ever holds the empty string, and each array of the
\* job result has no duplicates, holds only accumulated values, and has
\* min(1000, accumulated size) members.
C10_DistinctSets ==
  /\ \A f \in DistinctFields : "" \notin Range(distinct[f])
  /\ response.status = 200 =>
       \A f \in DistinctFields :
         LET arr == response.distinct[f]
         IN  /\ Cardinality(Range(arr)) = Len(arr)
             /\ Range(arr) \subseteq Range(distinct[f])
             /\ Len(arr) = Min(1000, Cardinality(Range(distinct[f])))

\* C10 witness: a successful job that accumulated more than 1000 receiver
\* types and met a data line with an empty value.
C10_Witness ==
  /\ response.status = 200
  /\ Cardinality(Range(distinct.receiverType)) > 1000
  /\ Len(response.distinct.receiverType) = 1000
  /\ \E r \in 1..Len(RowEvents) : "" \in Range(RowEvents[r].cells)

\* The data lines handed to the stringifier that are not yet in the file.
InFlightRows ==
  IF canonicalHeaders = NULL THEN 0
  ELSE Len(DataLines(pending, Deref(canonicalHeaders)))

\* C11: the parser waits until the writer has consumed the row before: at
\* most one row is ever between the parser and the file, however many rows
\* the entry has.
C11_BoundedInFlight == InFlightRows <= 1

\* C12: once the connection is aborted the job reads no further parser
\* event, writes nothing more, and no file is left at the output path.
C12_AbortStopsJob ==
  [][aborted => (events' = events /\ outFile' = outFile /\ ~outExists')]_vars

\* C13: whenever the job has answered, the uploaded archive is removed and
\* the output stream is no longer open.
C13_CleanupAtTerminal ==
  Terminal => (~zipOnDisk /\ outState # "open")

\* C20: every job eventually answers.
C20_EveryJobResponds == <>Terminal

\* The spellings of each semantic field, in priority order.
Aliases ==
  [currentStation |-> <<"Current Station", "current station",
                        "current_station">>,
   receiverType   |-> <<"Receiver type", "Receiver Type", "receiver type",
                        "receiver_type">>,
   journeyType    |-> <<"Journey Type", "Journey type", "journey type">>,
   receiveStatus  |-> <<"Receive Status", "Receive status",
                        "receive status">>]

\* The value of the first spelling that the data line has with a non-empty
\* value, "" when it has none.
FirstAlias(e, names) ==
  LET hits == { a \in 1..Len(names) :
                  HasCell(e, names[a]) /\ CellOf(e, names[a]) # "" }
  IN  IF hits = {} THEN ""
      ELSE CellOf(e, names[CHOOSE a \in hits : \A b \in hits : a <= b])

\* The values the data lines seen so far contribute to a field's set.
ExpectedDistinct(rows, f) ==
  { FirstAlias(rows[r], Aliases[f]) : r \in 1..Len(rows) } \ {""}

\* C17: each distinct set holds exactly the values that the data lines
\* give for the field's first spelling present with a non-empty value; a
\* line without such a spelling adds nothing.
C17_AliasResolution ==
  LET rows == RowEvents
  IN  \A f \in DistinctFields :
        Range(distinct[f]) = ExpectedDistinct(rows, f)

\* C17 witness: a data line had two spellings of the receiver type with
\* different values, the preferred one later in the file, and the set holds
\* the preferred one.
C17_Witness ==
  /\ \E r \in 1..Len(RowEvents) :
       LET e == RowEvents[r]
       IN  /\ HasCell(e, "Receiver Type") /\ HasCell(e, "Receiver type")
           /\ CellOf(e, "Receiver Type") # ""
           /\ CellOf(e, "Receiver type") # ""
           /\ CellOf(e, "Receiver Type") # CellOf(e, "Receiver type")
           /\ CellOf(e, "Receiver type") \in Range(distinct.receiverType)

\* C18: whatever the preview holds, every data line is projected, written
\* and aggregated: the records written, the lines produced and the four
\* distinct sets are determined by the data lines alone, also after the
\* preview is full.
C18_PreviewCapFrame ==
  LET rows == RowEvents
  IN  /\ Len(fed) = Len(rows) + (IF canonicalHeaders = NULL THEN 0 ELSE 1)
      /\ canonicalHeaders # NULL =>
           LET ch == Deref(canonicalHeaders)
           IN  /\ \A r \in 1..Len(rows) : fed[r + 1] = Projected(rows[r], ch)
               /\ DataLines(Produced, ch) =
                    [r \in 1..Len(rows) |-> ProjectedLine(rows[r], ch)]
      /\ \A f \in DistinctFields :
           Range(distinct[f]) = ExpectedDistinct(rows, f)

\* C18 witness: a successful job whose data lines after the 50th were
\* written and aggregated while the preview stayed at 50.
C18_Witness ==
  /\ response.status = 200
  /\ Len(preview) = 50
  /\ Len(RowEvents) > 51
  /\ RowEvents[Len(RowEvents)].cells \in RowCells
  /\ FirstAlias(RowEvents[Len(RowEvents)], Aliases.receiverType)
       \in Range(distinct.receiverType) \ {""}

\* C19: 'Current Station' is never a canonical column nor a key of a
\* written record, and the current-station set holds exactly what the
\* raw-row alias resolution over its three spellings gives.
C19_CurrentStationUniform ==
  /\ canonicalHeaders # NULL =>
       "Current Station" \notin Range(Deref(canonicalHeaders))
  /\ \A p \in 1..Len(fed) : "Current Station" \notin DOMAIN fed[p]
  /\ \A p \in 1..Len(preview) : "Current Station" \notin DOMAIN preview[p]
  /\ Range(distinct.currentStation) =
       { FirstAlias(RowEvents[r],
                    <<"Current Station", "current station",
                      "current_station">>) : r \in 1..Len(RowEvents) }
         \ {""}

\* C19 witness: a data line with a 'Current Station' value was written and
\* its value is in the current-station set, and another line contributed
\* through a lower-case spelling.
C19_Witness ==
  /\ \E r \in 1..Len(RowEvents) :
       /\ HasCell(RowEvents[r], "Current Station")
       /\ CellOf(RowEvents[r], "Current Station") # ""
       /\ CellOf(RowEvents[r], "Current Station")
            \in Range(distinct.currentStation)
       /\ Len(fed) > r
  /\ \E r \in 1..Len(RowEvents) :
       /\ ~HasCell(RowEvents[r], "Current Station")
       /\ HasCell(RowEvents[r], "current_station")
       /\ CellOf(RowEvents[r], "current_station")
            \in Range(distinct.currentStation)

\* What a request's parser events produce when no other request runs: the
\* two handlers applied to its own events, in order, from a fresh job.
RECURSIVE Alone(_)
Alone(log) ==
  IF log = <<>> THEN NewJob
  ELSE LET before == Alone(SubSeq(log, 1, Len(log) - 1))
           e      == log[Len(log)]
       IN  IF e.kind = "headers" THEN OnHeaders(before, e.headers)
           ELSE OnData(before, RawRow(e.headers, e.cells))

Started == { i \in 1..2 : reqs[i].phase # "idle" }

\* C14: with the callbacks of two uploads interleaved, each upload's
\* canonical header, preview, distinct sets, output lines and response
\* are those of its own events alone, and the two write different paths.
C14_JobIsolation ==
  /\ \A i \in Started :
       LET alone == Alone(reqs[i].log)
           mine  == heap[JobScope(i)]
       IN  /\ mine.canonicalHeaders = alone.canonicalHeaders
           /\ mine.preview = alone.preview
           /\ mine.distinct = alone.distinct
           /\ disk[consolidatedPath(reqs[i].guid)] \o mine.pending
                = alone.pending
           /\ reqs[i].phase = "done" =>
                /\ reqs[i].response.preview = alone.preview
                /\ reqs[i].response.distinct
                     = JobResult(alone.preview, alone.distinct).distinct
  /\ \A i \in Started, k \in Started :
       i # k => consolidatedPath(reqs[i].guid) # consolidatedPath(reqs[k].guid)

\* C14 witness: one upload has answered while the other, with another
\* header line, is still parsing; both have had a data line and both have
\* lines in their files.
C14_Witness ==
  /\ reqs[1].phase = "done"
  /\ reqs[2].phase = "parsing"
  /\ DataCount(reqs[1].log) >= 1
  /\ DataCount(reqs[2].log) >= 1
  /\ reqs[1].hdr # reqs[2].hdr
  /\ Len(disk[consolidatedPath(reqs[1].guid)]) >= 2
  /\ Len(disk[consolidatedPath(reqs[2].guid)]) >= 2

StrictlyInside(p, dir) ==
  Len(p) > Len(dir) /\ SubSeq(p, 1, Len(dir)) = dir

\* C15: whatever the file parameter, the path the preview handler tests
\* and opens lies strictly inside the output directory.
C15_PreviewInsideDataDir ==
  abs # NULL => StrictlyInside(Deref(abs), DATA_DIR)

\* A file parameter that is a name: not empty, no separator.
IsName(f) == f # NULL /\ Deref(f) # <<>> /\ "/" \notin Range(Deref(f))

RequestedLimit == IF query.limit = NULL THEN 50 ELSE Number(Deref(query.limit))

\* C16: a preview request that names an existing file of the output
\* directory answers with that file's first min(limit, rows) rows in
\* order, limit being 50 when absent; one that names no file of the
\* output directory answers not-found and has read nothing; no file
\* changes.
C16_PreviewResult ==
  (previewPc # "idle" /\ IsName(query.file)) =>
     LET target == Append(DATA_DIR, Deref(query.file))
     IN  /\ disk = PreviewDisk
         /\ IF target \in DOMAIN disk
            THEN LET rows == FileRows(disk[target])
                 IN  /\ previewPc \in {"reading", "responded"}
                     /\ previewPc = "responded" =>
                          /\ previewStatus = 200
                          /\ out = SubSeq(rows, 1,
                                          Min(RequestedLimit, Len(rows)))
            ELSE /\ previewPc = "responded"
                 /\ previewStatus = 404
                 /\ ~opened
                 /\ out = <<>>

====
